---------------------------- MODULE Spec2Model ----------------------------
(***************************************************************************)
(* yuma_tools: the YUMA almanac parser (parser.py, parse_yuma_almanac) and *)
(* the reader that wraps it (reader.py, yumaread).                         *)
(*                                                                         *)
(* Text is modelled as sequences of one-character strings, so that strip,  *)
(* startswith, split, the two regular expressions and the int / float      *)
(* conversions are computed on the characters as the Python code computes  *)
(* them.  A dict is a function whose DOMAIN is its key set; Python's None  *)
(* is the value None below.                                                *)
(***************************************************************************)
EXTENDS Integers, Sequences, FiniteSets, TLC

VARIABLES
    fileExists,     \* filepath.is_file()
    lines,          \* file.readlines(): the file's lines, each with its "\n"
    strict,         \* the strict argument
    almanac_date,   \* the almanac_date argument / local of parse_yuma_almanac
    pc,             \* position in the call
    i,              \* index of the next line of "for line in lines"
    records,        \* parser.py: records
    record,         \* parser.py: record (the dict in progress)
    week,           \* parser.py: week
    presult,        \* how parse_yuma_almanac ended: returned df or raised
    caller,         \* "direct" (parse_yuma_almanac called) or "yumaread"
    filename,       \* the name of the source file (reader.py)
    rresult         \* how yumaread ended

vars == <<fileExists, lines, strict, almanac_date, pc, i, records, record,
          week, presult, caller, filename, rresult>>

(***************************** bounds ***************************************)
MaxLines == 3
MaxReadLines == 2
MaxParts == 2

(***************************** values ***************************************)
None == [t |-> "None"]
PyInt(n) == [t |-> "int", n |-> n]
PyFloat(m, e) == [t |-> "float", m |-> m, e |-> e]
PyStr(s) == [t |-> "str", s |-> s]
DateTime(y, mo, d, h) == [t |-> "datetime", y |-> y, mo |-> mo, d |-> d, h |-> h]
IsNull(v) == v = None

Failed == [ok |-> FALSE]
Ok(v) == [ok |-> TRUE, v |-> v]

(***************************** text *****************************************)
LblId ==
    <<"I", "D", ":">>
LblHealth ==
    <<"H", "e", "a", "l", "t", "h", ":">>
LblEccentricity ==
    <<"E", "c", "c", "e", "n", "t", "r", "i", "c", "i", "t", "y", ":">>
LblTimeOfApplicability ==
    <<"T", "i", "m", "e", " ", "o", "f", " ", "A", "p", "p", "l", "i", "c", "a", "b", "i", "l",
      "i", "t", "y", "(", "s", ")", ":">>
LblOrbitalInclination ==
    <<"O", "r", "b", "i", "t", "a", "l", " ", "I", "n", "c", "l", "i", "n", "a", "t", "i", "o",
      "n", "(", "r", "a", "d", ")", ":">>
LblRateOfRightAscen ==
    <<"R", "a", "t", "e", " ", "o", "f", " ", "R", "i", "g", "h", "t", " ", "A", "s", "c", "e",
      "n", "(", "r", "/", "s", ")", ":">>
LblSQRTA ==
    <<"S", "Q", "R", "T", "(", "A", ")", " ", " ", "(", "m", " ", "1", "/", "2", ")", ":">>
LblRightAscenAtWeek ==
    <<"R", "i", "g", "h", "t", " ", "A", "s", "c", "e", "n", " ", "a", "t", " ", "W", "e", "e",
      "k", "(", "r", "a", "d", ")", ":">>
LblArgumentOfPerigee ==
    <<"A", "r", "g", "u", "m", "e", "n", "t", " ", "o", "f", " ", "P", "e", "r", "i", "g", "e",
      "e", "(", "r", "a", "d", ")", ":">>
LblMeanAnom ==
    <<"M", "e", "a", "n", " ", "A", "n", "o", "m", "(", "r", "a", "d", ")", ":">>
LblAf0 ==
    <<"A", "f", "0", "(", "s", ")", ":">>
LblAf1 ==
    <<"A", "f", "1", "(", "s", "/", "s", ")", ":">>
WeekPrefix ==
    <<"*", "*", "*", "*", "*", "*", "*", "*", " ", "W", "e", "e", "k">>
WeekWord ==
    <<"W", "e", "e", "k">>
LineBlank ==
    <<" ", "\n">>
LineWeek7 ==
    <<"*", "*", "*", "*", "*", "*", "*", "*", " ", "W", "e", "e", "k", " ", "7", " ", "*", "*",
      "*", "*", "\n">>
LineWeek12 ==
    <<"*", "*", "*", "*", "*", "*", "*", "*", " ", "W", "e", "e", "k", " ", " ", "1", "2",
      "\n">>
LineWeekBad ==
    <<"*", "*", "*", "*", "*", "*", "*", "*", " ", "W", "e", "e", "k", " ", "*", "*", "*", "*",
      "\n">>
LineId3 ==
    <<" ", "I", "D", ":", " ", "0", "3", "\n">>
LineIdBad ==
    <<"I", "D", ":", " ", "x", "\n">>
LineHealth0 ==
    <<"H", "e", "a", "l", "t", "h", ":", " ", "0", "0", "0", "\n">>
LineHealthBad ==
    <<"H", "e", "a", "l", "t", "h", ":", " ", "0", "x", "\n">>
LineAf0 ==
    <<"A", "f", "0", "(", "s", ")", ":", " ", "-", "1", ".", "5", "D", "-", "0", "4", "\n">>
LineOther ==
    <<"w", "e", "e", "k", " ", "7", "\n">>
NameAlm ==
    <<"a", "_">>
NameLeap ==
    <<"2", "0", "2", "4", "-", "0", "2", "-", "2", "9">>
NameNoLeap ==
    <<"2", "0", "2", "3", "-", "0", "2", "-", "2", "9">>
NameMarch ==
    <<"2", "0", "2", "4", "-", "0", "3", "-", "0", "5">>

IsSpace(c) == c \in {" ", "\t", "\n", "\r"}
IsDigit(c) == c \in {"0", "1", "2", "3", "4", "5", "6", "7", "8", "9"}
DigitVal(c) ==
    CASE c = "0" -> 0 [] c = "1" -> 1 [] c = "2" -> 2 [] c = "3" -> 3
      [] c = "4" -> 4 [] c = "5" -> 5 [] c = "6" -> 6 [] c = "7" -> 7
      [] c = "8" -> 8 [] c = "9" -> 9

RECURSIVE lstrip(_)
lstrip(s) == IF s # <<>> /\ IsSpace(Head(s)) THEN lstrip(Tail(s)) ELSE s

RECURSIVE rstrip(_)
rstrip(s) ==
    IF s # <<>> /\ IsSpace(s[Len(s)]) THEN rstrip(SubSeq(s, 1, Len(s) - 1)) ELSE s

strip(s) == rstrip(lstrip(s))

startswith(s, p) == Len(s) >= Len(p) /\ SubSeq(s, 1, Len(p)) = p

replace(s, a, b) == [k \in 1..Len(s) |-> IF s[k] = a THEN b ELSE s[k]]

IndexOf(s, c) ==
    LET at == {k \in 1..Len(s) : s[k] = c}
    IN  IF at = {} THEN 0 ELSE CHOOSE k \in at : \A j \in at : k <= j

\* line.split(":", 1)[1]: the text after the first colon (IndexError if none)
SplitAfterColon(s) ==
    LET k == IndexOf(s, ":")
    IN  IF k = 0 THEN Failed ELSE Ok(SubSeq(s, k + 1, Len(s)))

AllDigits(s) == s # <<>> /\ \A k \in 1..Len(s) : IsDigit(s[k])

RECURSIVE Num(_)
Num(s) == IF s = <<>> THEN 0 ELSE 10 * Num(SubSeq(s, 1, Len(s) - 1)) + DigitVal(s[Len(s)])

\* first index >= k of s that holds no space / no digit (Len(s) + 1 if none)
RECURSIVE SkipSpaces(_, _)
SkipSpaces(s, k) == IF k <= Len(s) /\ IsSpace(s[k]) THEN SkipSpaces(s, k + 1) ELSE k

RECURSIVE SkipDigits(_, _)
SkipDigits(s, k) == IF k <= Len(s) /\ IsDigit(s[k]) THEN SkipDigits(s, k + 1) ELSE k

(***************************** converters ***********************************)
\* int(x): surrounding whitespace, an optional sign, decimal digits (the
\* digit-group underscores Python also takes occur in no input drawn here)
int(x) ==
    LET s == strip(x)
        signed == s # <<>> /\ s[1] \in {"+", "-"}
        body == IF signed THEN Tail(s) ELSE s
    IN  IF AllDigits(body)
        THEN Ok(PyInt(IF signed /\ s[1] = "-" THEN 0 - Num(body) ELSE Num(body)))
        ELSE Failed

\* a float m * 10^e with the trailing zeros of m moved into e
RECURSIVE Normal(_, _)
Normal(m, e) ==
    IF m = 0 THEN PyFloat(0, 0)
    ELSE IF m % 10 = 0 THEN Normal(m \div 10, e + 1) ELSE PyFloat(m, e)

\* float(x): [sign] digits [. digits] [(e|E) [sign] digits] (the spellings
\* "inf" and "nan" Python also takes occur in no input drawn here)
float(x) ==
    LET s == strip(x)
        signed == s # <<>> /\ s[1] \in {"+", "-"}
        neg == signed /\ s[1] = "-"
        body == IF signed THEN Tail(s) ELSE s
        ke == LET a == IndexOf(body, "e") b == IndexOf(body, "E")
              IN  IF a = 0 THEN b ELSE IF b = 0 THEN a ELSE IF a < b THEN a ELSE b
        mant == IF ke = 0 THEN body ELSE SubSeq(body, 1, ke - 1)
        expo == IF ke = 0 THEN <<>> ELSE SubSeq(body, ke + 1, Len(body))
        esigned == expo # <<>> /\ expo[1] \in {"+", "-"}
        edigits == IF esigned THEN Tail(expo) ELSE expo
        kd == IndexOf(mant, ".")
        whole == IF kd = 0 THEN mant ELSE SubSeq(mant, 1, kd - 1)
        frac == IF kd = 0 THEN <<>> ELSE SubSeq(mant, kd + 1, Len(mant))
        digitsOk == /\ \A k \in 1..Len(whole) : IsDigit(whole[k])
                    /\ \A k \in 1..Len(frac) : IsDigit(frac[k])
                    /\ whole \o frac # <<>>
        expOk == ke = 0 \/ AllDigits(edigits)
        ev == IF ke = 0 THEN 0
              ELSE IF esigned /\ expo[1] = "-" THEN 0 - Num(edigits) ELSE Num(edigits)
        mv == Num(whole \o frac)
    IN  IF digitsOk /\ expOk
        THEN Ok(Normal(IF neg THEN 0 - mv ELSE mv, ev - Len(frac)))
        ELSE Failed

\* lambda x: float(x.replace("D", "E"))
float_D(x) == float(replace(x, "D", "E"))

Convert(converter, x) == IF converter = "int" THEN int(x) ELSE float_D(x)

field_map ==
    << <<LblId, "PRN", "int">>,
       <<LblHealth, "Health", "int">>,
       <<LblEccentricity, "Eccentricity", "float_D">>,
       <<LblTimeOfApplicability, "TimeOfApplicability", "float_D">>,
       <<LblOrbitalInclination, "OrbitalInclination", "float_D">>,
       <<LblRateOfRightAscen, "RateOfRightAscen", "float_D">>,
       <<LblSQRTA, "SQRTA", "float_D">>,
       <<LblRightAscenAtWeek, "RightAscenAtWeek", "float_D">>,
       <<LblArgumentOfPerigee, "ArgumentOfPerigee", "float_D">>,
       <<LblMeanAnom, "MeanAnom", "float_D">>,
       <<LblAf0, "Af0", "float_D">>,
       <<LblAf1, "Af1", "float_D">> >>

required_fields == <<"PRN", "Week", "Time">>

\* re.search(r"Week\s+(\d+)", line): the digits of the leftmost match
WeekMatchAt(s, p) ==
    /\ p + 3 <= Len(s)
    /\ SubSeq(s, p, p + 3) = WeekWord
    /\ SkipSpaces(s, p + 4) > p + 4
    /\ SkipDigits(s, SkipSpaces(s, p + 4)) > SkipSpaces(s, p + 4)

WeekSearch(s) ==
    LET at == {p \in 1..Len(s) : WeekMatchAt(s, p)}
    IN  IF at = {} THEN Failed
        ELSE LET p == CHOOSE q \in at : \A r \in at : q <= r
                 a == SkipSpaces(s, p + 4)
             IN  Ok(SubSeq(s, a, SkipDigits(s, a) - 1))

(***************************** dicts and frames *****************************)
EmptyDict == [k \in {} |-> None]
SetItem(d, key, v) == [k \in DOMAIN d \cup {key} |-> IF k = key THEN v ELSE d[k]]
\* a dict is truthy ("if record:") when it has a key
Truthy(d) == DOMAIN d # {}

\* pd.DataFrame(records): the columns are the union of the dicts' keys and a
\* key a dict lacks is a null cell of its row
Columns(recs) == UNION {DOMAIN recs[k] : k \in 1..Len(recs)}
DataFrame(recs) ==
    [columns |-> Columns(recs),
     rows |-> [k \in 1..Len(recs) |->
                 [c \in Columns(recs) |->
                    IF c \in DOMAIN recs[k] THEN recs[k][c] ELSE None]]]

\* df[f].isnull().all()
AllNull(df, f) == \A k \in 1..Len(df.rows) : IsNull(df.rows[k][f])

\* Missing without the isnull().all() test: only a column that does not exist
MissingColumnsOnly(df) ==
    {f \in {required_fields[k] : k \in 1..Len(required_fields)} :
        f \notin df.columns}

\* [f for f in required_fields if f not in df.columns or df[f].isnull().all()]
Missing(df) ==
    {f \in {required_fields[k] : k \in 1..Len(required_fields)} :
        f \notin df.columns \/ AllNull(df, f)}

\* pd.to_datetime on one cell: a datetime becomes a Timestamp, null stays NaT
to_datetime(v) ==
    IF v.t = "datetime"
    THEN [t |-> "Timestamp", y |-> v.y, mo |-> v.mo, d |-> v.d, h |-> v.h]
    ELSE None

\* df['Time'] = pd.to_datetime(df['Time'])
WithTime(df) ==
    [columns |-> df.columns,
     rows |-> [k \in 1..Len(df.rows) |->
                 [c \in df.columns |->
                    IF c = "Time" THEN to_datetime(df.rows[k][c]) ELSE df.rows[k][c]]]]

(***************************** outcomes *************************************)
Running == [kind |-> "running"]
Raised(exc, msg) == [kind |-> "raised", exc |-> exc, msg |-> msg]
Returned(df) == [kind |-> "returned", df |-> df]

\* filepath.stat().st_mtime as a UTC datetime
MTime == DateTime(2025, 6, 15, 13)

(***************************** parse_yuma_almanac ***************************)
\* the stripped line the loop is at
line == strip(lines[i])

IsHeader(s) == startswith(s, WeekPrefix)
IsId(s) == ~IsHeader(s) /\ startswith(s, LblId)

\* the first entry of field_map whose label the line starts with, "ID:" excepted
\* (0 if there is none)
FieldIndex(s) ==
    LET at == {k \in 1..Len(field_map) :
                 startswith(s, field_map[k][1]) /\ field_map[k][1] # LblId}
    IN  IF at = {} THEN 0 ELSE CHOOSE k \in at : \A j \in at : k <= j

\* value = line.split(":", 1)[1].strip(); converter(value), None on an exception
FieldValue(s, converter) ==
    LET part == SplitAfterColon(s)
        got == IF part.ok THEN Convert(converter, strip(part.v)) ELSE Failed
    IN  IF got.ok THEN got.v ELSE None

\* {'Week': week, 'Time': almanac_date}
Seed(w, t) == SetItem(SetItem(EmptyDict, "Week", w), "Time", t)

\* Flush that drops a record whose PRN an appended record already has
FlushDedup(recs, rec) ==
    IF Truthy(rec) /\ ~\E k \in 1..Len(recs) :
                         "PRN" \in DOMAIN recs[k] /\ "PRN" \in DOMAIN rec
                            /\ recs[k]["PRN"] = rec["PRN"]
    THEN Append(recs, rec) ELSE recs

\* if record: records.append(record.copy())
Flush(recs, rec) == IF Truthy(rec) THEN Append(recs, rec) ELSE recs

\* HeaderWeek that forgets the week at a header without an integer
HeaderWeekResets(w, s) ==
    LET m == WeekSearch(s)
    IN  IF m.ok THEN int(m.v).v ELSE None

\* week after a header line: the matched integer, or week unchanged
HeaderWeek(w, s) ==
    LET m == WeekSearch(s)
    IN  IF m.ok THEN int(m.v).v ELSE w

\* lines 26-43: the file checks, the read and the default epoch
POpen ==
    /\ pc = "p_start"
    /\ \/ /\ ~fileExists
          /\ presult' = Raised("FileNotFoundError", "File not found")
          /\ pc' = "p_done"
          /\ UNCHANGED almanac_date
       \/ /\ fileExists
          /\ presult' = Raised("IOError", "Failed to read file")
          /\ pc' = "p_done"
          /\ UNCHANGED almanac_date
       \/ /\ fileExists
          /\ lines = <<>>
          /\ presult' = Raised("ValueError", "Input file is empty")
          /\ pc' = "p_done"
          /\ UNCHANGED almanac_date
       \/ /\ fileExists
          /\ lines # <<>>
          /\ almanac_date' = IF almanac_date = None THEN MTime ELSE almanac_date
          /\ pc' = "scan"
          /\ UNCHANGED presult
    /\ UNCHANGED <<fileExists, lines, strict, i, records, record, week, caller,
                   filename, rresult>>

\* lines 65-67: a blank line is skipped
SkipBlank ==
    /\ pc = "scan"
    /\ i <= Len(lines)
    /\ line = <<>>
    /\ i' = i + 1
    /\ UNCHANGED <<fileExists, lines, strict, almanac_date, pc, records, record,
                   week, presult, caller, filename, rresult>>

\* lines 69-72: a week header
WeekHeader ==
    /\ pc = "scan"
    /\ i <= Len(lines)
    /\ line # <<>>
    /\ IsHeader(line)
    /\ week' = HeaderWeek(week, line)
    /\ i' = i + 1
    /\ UNCHANGED <<fileExists, lines, strict, almanac_date, pc, records, record,
                   presult, caller, filename, rresult>>

\* the PRN of an "ID:" line: int(line.split(":", 1)[1].strip()), None on failure
PrnOf(s) == FieldValue(s, "int")

\* lines 74-84: an "ID:" line closes the record in progress and opens the next
IdLine ==
    /\ pc = "scan"
    /\ i <= Len(lines)
    /\ line # <<>>
    /\ IsId(line)
    /\ records' = Flush(records, record)
    /\ record' = SetItem(Seed(week, almanac_date), "PRN", PrnOf(line))
    /\ i' = i + 1
    /\ UNCHANGED <<fileExists, lines, strict, almanac_date, pc, week, presult,
                   caller, filename, rresult>>

\* StoreField that gives up the record in progress when a value fails
StoreFieldDropsRecord(rec, s) ==
    LET k == FieldIndex(s)
    IN  IF k = 0 THEN rec
        ELSE IF FieldValue(s, field_map[k][3]) = None THEN EmptyDict
        ELSE SetItem(rec, field_map[k][2], FieldValue(s, field_map[k][3]))

\* record after a line of the else branch: the first matching label's key is
\* set to the converted value or to None; no label, no change
StoreField(rec, s) ==
    LET k == FieldIndex(s)
    IN  IF k = 0 THEN rec
        ELSE SetItem(rec, field_map[k][2], FieldValue(s, field_map[k][3]))

\* lines 86-96: any other line is looked up in field_map
FieldLine ==
    /\ pc = "scan"
    /\ i <= Len(lines)
    /\ line # <<>>
    /\ ~IsHeader(line)
    /\ ~IsId(line)
    /\ record' = StoreField(record, line)
    /\ i' = i + 1
    /\ UNCHANGED <<fileExists, lines, strict, almanac_date, pc, records, week,
                   presult, caller, filename, rresult>>

\* Validate without the "if not records" test
ValidateSkipsEmptyCheck(recs, isStrict) ==
    IF isStrict /\ Missing(DataFrame(recs)) # {}
    THEN Raised("ValueError", "Missing required fields")
    ELSE IF "Time" \notin DataFrame(recs).columns
    THEN Raised("KeyError", "Time")
    ELSE Returned(WithTime(DataFrame(recs)))

\* lines 101-117 on the records of the scan: the result of the call
Validate(recs, isStrict) ==
    IF recs = <<>>
    THEN Raised("ValueError", "No valid records found in the YUMA file.")
    ELSE IF isStrict /\ Missing(DataFrame(recs)) # {}
    THEN Raised("ValueError", "Missing required fields")
    ELSE IF "Time" \notin DataFrame(recs).columns
    THEN Raised("KeyError", "Time")
    ELSE Returned(WithTime(DataFrame(recs)))

\* lines 98-117: the end of the loop
PFinish ==
    /\ pc = "scan"
    /\ i > Len(lines)
    /\ records' = Flush(records, record)
    /\ presult' = Validate(records', strict)
    /\ pc' = "p_done"
    /\ UNCHANGED <<fileExists, lines, strict, almanac_date, i, record, week,
                   caller, filename, rresult>>

(***************************** yumaread *************************************)
\* re.search(r"(\d{4})-(\d{2})-(\d{2})", filename.name): the leftmost match
DateMatchAt(s, p) ==
    /\ p + 9 <= Len(s)
    /\ \A k \in {0, 1, 2, 3, 5, 6, 8, 9} : IsDigit(s[p + k])
    /\ s[p + 4] = "-"
    /\ s[p + 7] = "-"

DateSearch(s) ==
    LET at == {p \in 1..Len(s) : DateMatchAt(s, p)}
    IN  IF at = {} THEN Failed
        ELSE LET p == CHOOSE q \in at : \A r \in at : q <= r
             IN  Ok(<<Num(SubSeq(s, p, p + 3)), Num(SubSeq(s, p + 5, p + 6)),
                      Num(SubSeq(s, p + 8, p + 9))>>)

IsLeap(y) == y % 4 = 0 /\ (y % 100 # 0 \/ y % 400 = 0)
DaysIn(y, mo) ==
    IF mo = 2 THEN (IF IsLeap(y) THEN 29 ELSE 28)
    ELSE IF mo \in {4, 6, 9, 11} THEN 30 ELSE 31

\* datetime.datetime(y, mo, d, tzinfo=utc): ValueError outside the calendar
MakeDate(y, mo, d) ==
    IF y \in 1..9999 /\ mo \in 1..12 /\ d >= 1 /\ d <= DaysIn(y, mo)
    THEN Ok(DateTime(y, mo, d, 0))
    ELSE Failed

\* lines 44-54: the almanac_date yumaread passes to the parser
FilenameDate(name) ==
    LET m == DateSearch(name)
        made == IF m.ok THEN MakeDate(m.v[1], m.v[2], m.v[3]) ELSE Failed
    IN  IF made.ok THEN made.v ELSE None

\* a handler that catches ValueError alone: the other exceptions leave the call
HandleValueErrorOnly(exc) ==
    IF exc = "ValueError" THEN [kind |-> "None"]
    ELSE [kind |-> "raised", exc |-> exc]

\* except Exception as e: ... return None
Handle(exc) == [kind |-> "None"]

\* lines 38-59: the file check and the epoch taken from the file's name
RStart ==
    /\ pc = "r_start"
    /\ \/ /\ ~fileExists
          /\ rresult' = Handle("FileNotFoundError")
          /\ pc' = "r_done"
          /\ UNCHANGED almanac_date
       \/ /\ fileExists
          /\ almanac_date' = FilenameDate(filename)
          /\ pc' = "p_start"
          /\ UNCHANGED rresult
    /\ UNCHANGED <<fileExists, lines, strict, i, records, record, week, presult,
                   caller, filename>>

Digits == <<"0", "1", "2", "3", "4", "5", "6", "7", "8", "9">>
\* n written with at least w digits, zero padded
RECURSIVE Pad(_, _)
Pad(n, w) ==
    IF w <= 1 /\ n < 10 THEN <<Digits[n + 1]>>
    ELSE Pad(n \div 10, w - 1) \o <<Digits[(n % 10) + 1]>>

\* one cell of df['Time'].dt.strftime("%Y-%m-%d"): NaT gives a null
strftime(v) ==
    IF v = None THEN None
    ELSE PyStr(Pad(v.y, 4) \o <<"-">> \o Pad(v.mo, 2) \o <<"-">> \o Pad(v.d, 2))

\* the default time_format, "%Y-%m-%d"
DefaultFormat == PyStr(<<"%", "Y", "-", "%", "m", "-", "%", "d">>)

\* lines 64-69: the Time column after the formatting step ("if time_format:"
\* is false for None; a failure of strftime leaves the column as it was)
FormatTime(df, time_format, strftimeRaises) ==
    IF time_format = None \/ strftimeRaises THEN df
    ELSE [columns |-> df.columns,
          rows |-> [k \in 1..Len(df.rows) |->
                      [c \in df.columns |->
                         IF c = "Time" THEN strftime(df.rows[k][c]) ELSE df.rows[k][c]]]]

\* df.set_index('Time', inplace=True): Time leaves the columns and keys the rows
set_index(df) ==
    [kind |-> "table",
     index |-> [k \in 1..Len(df.rows) |-> df.rows[k]["Time"]],
     columns |-> df.columns \ {"Time"},
     rows |-> [k \in 1..Len(df.rows) |->
                 [c \in df.columns \ {"Time"} |-> df.rows[k][c]]]]

\* lines 59-87: what yumaread makes of the parser's outcome
Assemble(pres, time_format, strftimeRaises, display, styleRaises) ==
    IF pres.kind = "raised" THEN Handle(pres.exc)
    ELSE IF "Time" \notin pres.df.columns THEN Handle("ValueError")
    ELSE IF display /\ styleRaises THEN Handle("ImportError")
    ELSE set_index(FormatTime(pres.df, time_format, strftimeRaises))

RFinish ==
    /\ pc = "p_done"
    /\ caller = "yumaread"
    /\ \E time_format \in {None, DefaultFormat}, strftimeRaises \in BOOLEAN,
          display \in BOOLEAN, styleRaises \in BOOLEAN :
          rresult' = Assemble(presult, time_format, strftimeRaises, display, styleRaises)
    /\ pc' = "r_done"
    /\ UNCHANGED <<fileExists, lines, strict, almanac_date, i, records, record,
                   week, presult, caller, filename>>

(***************************** specifications *******************************)
RECURSIVE SeqsUpTo(_, _)
SeqsUpTo(S, n) ==
    IF n = 0 THEN {<<>>}
    ELSE LET shorter == SeqsUpTo(S, n - 1)
         IN  shorter \cup {Append(s, x) : s \in shorter, x \in S}

InputLines ==
    {LineBlank, LineWeek7, LineWeek12, LineWeekBad, LineId3, LineIdBad,
     LineHealth0, LineHealthBad, LineAf0, LineOther}

ReadLines == {LineBlank, LineWeek7, LineId3, LineIdBad, LineAf0}

NameParts == {NameAlm, NameLeap, NameNoLeap, NameMarch}

RECURSIVE Flatten(_)
Flatten(ss) == IF ss = <<>> THEN <<>> ELSE Head(ss) \o Flatten(Tail(ss))

Filenames == {Flatten(ps) : ps \in SeqsUpTo(NameParts, MaxParts)}

ExplicitDate == DateTime(2024, 1, 7, 0)

InitLocals ==
    /\ pc \in {"p_start", "r_start"}
    /\ i = 1
    /\ records = <<>>
    /\ record = EmptyDict
    /\ week = None
    /\ presult = Running
    /\ rresult = Running

\* parse_yuma_almanac called directly
Init ==
    /\ fileExists \in BOOLEAN
    /\ lines \in (IF fileExists THEN SeqsUpTo(InputLines, MaxLines) ELSE {<<>>})
    /\ strict \in BOOLEAN
    /\ almanac_date \in {None, ExplicitDate}
    /\ caller = "direct"
    /\ filename = <<>>
    /\ InitLocals
    /\ pc = "p_start"

Next == POpen \/ SkipBlank \/ WeekHeader \/ IdLine \/ FieldLine \/ PFinish

Spec == Init /\ [][Next]_vars

\* yumaread called, which calls parse_yuma_almanac
InitRead ==
    /\ fileExists \in BOOLEAN
    /\ lines \in (IF fileExists THEN SeqsUpTo(ReadLines, MaxReadLines) ELSE {<<>>})
    /\ strict \in BOOLEAN
    /\ almanac_date = None
    /\ caller = "yumaread"
    /\ filename \in Filenames
    /\ InitLocals
    /\ pc = "r_start"

NextRead == RStart \/ POpen \/ SkipBlank \/ WeekHeader \/ IdLine \/ FieldLine
              \/ PFinish \/ RFinish

SpecRead == InitRead /\ [][NextRead]_vars


(***************************** reading the input ****************************)
\* What the input says, read off the lines without running the scan.
StrippedAt(k) == strip(lines[k])
IdAt(k) == startswith(StrippedAt(k), LblId)
HeaderAt(k) == startswith(StrippedAt(k), WeekPrefix)
LabelAt(k) ==
    IF StrippedAt(k) = <<>> \/ HeaderAt(k) \/ IdAt(k) THEN 0
    ELSE FieldIndex(StrippedAt(k))
FieldAt(k) == LabelAt(k) # 0
FieldKeyAt(k) == field_map[LabelAt(k)][2]
Max(S) == CHOOSE x \in S : \A y \in S : y <= x

IdsBefore(p) == {k \in 1..(p - 1) : IdAt(k)}
Ids == IdsBefore(Len(lines) + 1)
NthId(n) == CHOOSE k \in Ids : Cardinality(IdsBefore(k)) = n - 1
\* the last line of the block the n-th "ID:" line opens, within lines 1..q
BlockEnd(n, q) ==
    IF n < Cardinality(IdsBefore(q + 1)) THEN NthId(n + 1) - 1 ELSE q

\* every field line is preceded by some "ID:" line
WellFormedInput == \A k \in 1..Len(lines) : FieldAt(k) => IdsBefore(k) # {}
\* a field line comes before the first "ID:" line of lines 1..(p - 1)
OrphanBefore(p) == \E k \in 1..(p - 1) : FieldAt(k) /\ IdsBefore(k) = {}

\* the week headers in which the regular expression finds an integer
GoodHeadersBefore(p) ==
    {k \in 1..(p - 1) : HeaderAt(k) /\ WeekSearch(StrippedAt(k)).ok}
WeekBefore(p) ==
    IF GoodHeadersBefore(p) = {} THEN None
    ELSE PyInt(Num(WeekSearch(StrippedAt(Max(GoodHeadersBefore(p)))).v))

\* the record the "ID:" line p opens, after the field lines up to line q
ExpectedRecord(p, q) ==
    LET fl == {k \in (p + 1)..q : FieldAt(k)}
    IN  [c \in {"Week", "Time", "PRN"} \cup {FieldKeyAt(k) : k \in fl} |->
           IF c = "PRN" THEN PrnOf(StrippedAt(p))
           ELSE IF c = "Week" THEN WeekBefore(p)
           ELSE IF c = "Time" THEN almanac_date
           ELSE LET last == Max({k \in fl : FieldKeyAt(k) = c})
                IN  FieldValue(StrippedAt(last), field_map[LabelAt(last)][3])]

HasDigit(s) == \E k \in 1..Len(s) : IsDigit(s[k])
NonNull(r, c) == c \in DOMAIN r /\ ~IsNull(r[c])
\* a required column in which every record of recs is null or lacks the key
AbsentColumns(recs) ==
    {f \in {"PRN", "Week", "Time"} : \A k \in 1..Len(recs) : ~NonNull(recs[k], f)}

(***************************** C1 *******************************************)
\* C1: on a well-formed input that parses, the table has one row per "ID:"
\* line, and the n-th row is the record of the n-th "ID:" line's block, in
\* file order, equal PRNs included.
C1_OneRecordPerIdLine ==
    (pc = "p_done" /\ presult.kind = "returned" /\ WellFormedInput) =>
        /\ Len(presult.df.rows) = Cardinality(Ids)
        /\ \A n \in 1..Cardinality(Ids) :
              LET want == ExpectedRecord(NthId(n), BlockEnd(n, Len(lines)))
              IN  \A c \in presult.df.columns :
                     presult.df.rows[n][c] =
                        IF c \notin DOMAIN want THEN None
                        ELSE IF c = "Time" THEN to_datetime(want[c])
                        ELSE want[c]

C1_Witness ==
    /\ pc = "p_done"
    /\ presult.kind = "returned"
    /\ WellFormedInput
    /\ Len(presult.df.rows) = 2
    /\ presult.df.rows[1]["PRN"] = PyInt(3)
    /\ presult.df.rows[2]["PRN"] = PyInt(3)
    /\ \E k \in 1..Len(lines) : FieldAt(k)

(***************************** C2 *******************************************)
\* the records appended so far, then the record in progress
Scanned == IF Truthy(record) THEN Append(records, record) ELSE records
WeekOf(r) == IF "Week" \in DOMAIN r THEN r["Week"] ELSE None
\* the week each scanned record must carry: that of the last good header
\* before its "ID:" line, null for a record no "ID:" line opened
WeeksFollowHeaders ==
    LET off == IF OrphanBefore(i) THEN 1 ELSE 0
    IN  /\ week = WeekBefore(i)
        /\ Len(Scanned) = off + Cardinality(IdsBefore(i))
        /\ \A k \in 1..Len(Scanned) :
              WeekOf(Scanned[k]) =
                 IF k <= off THEN None ELSE WeekBefore(NthId(k - off))

\* C2: at every point of the scan each record's Week is the integer of the
\* most recent well-formed header before its "ID:" line (null if none), so a
\* later header changes no record, appended or in progress; and a header
\* line without an integer is never a well-formed one: the current week
\* stays what the last well-formed header made it.
C2_WeekFromPrecedingHeader ==
    pc = "scan" =>
        /\ WeeksFollowHeaders
        /\ \A k \in 1..(i - 1) :
              (HeaderAt(k) /\ ~HasDigit(StrippedAt(k))) =>
                 WeekBefore(k + 1) = WeekBefore(k)

C2_Witness ==
    /\ pc = "scan"
    /\ i = 4
    /\ \E k \in 1..3 : HeaderAt(k) /\ ~HasDigit(StrippedAt(k))
    /\ week = PyInt(7)
    /\ Len(records) = 0
    /\ NonNull(record, "PRN")
    /\ WeekOf(record) = None

(***************************** C3 *******************************************)
\* C3 as stated: in strict mode a table is returned only if some one record
\* has PRN, Week and Time all non-null.
C3_StrictNeedsACompleteRecord ==
    (pc = "p_done" /\ strict /\ presult.kind = "returned") =>
        \E k \in 1..Len(records) :
           \A f \in {"PRN", "Week", "Time"} : NonNull(records[k], f)

\* C3, amended: in strict mode the call fails whenever one of PRN, Week, Time
\* is null or missing in every produced record; records that are each
\* incomplete but together fill the three columns are accepted.
C3_StrictRejectsAbsentColumn ==
    (pc = "p_done" /\ strict /\ AbsentColumns(records) # {}) =>
        presult.kind = "raised"

C3_Witness ==
    /\ pc = "p_done"
    /\ strict
    /\ Len(records) = 2
    /\ AbsentColumns(records) = {"PRN"}
    /\ presult = Raised("ValueError", "Missing required fields")

(***************************** C4 *******************************************)
\* C4: with a record produced, strict mode rejects exactly when one of PRN,
\* Week, Time is null in every record; non-strict mode does not reject and
\* returns the scan's records unchanged, in order.
C4_StrictGateOnly ==
    (pc = "p_done" /\ records # <<>>) =>
        /\ strict => (presult.kind = "raised" <=> AbsentColumns(records) # {})
        /\ ~strict =>
              /\ presult.kind = "returned"
              /\ Len(presult.df.rows) = Len(records)
              /\ \A k \in 1..Len(records) : \A c \in DOMAIN records[k] :
                    presult.df.rows[k][c] =
                       IF c = "Time" THEN to_datetime(records[k][c])
                       ELSE records[k][c]

(***************************** C5 *******************************************)
\* C5: a file that exists and is read fails only when it has no lines, when
\* no record is produced, or in strict mode with a required column absent;
\* in non-strict mode every input that produces a record returns a table.
C5_OnlyTerminalFailures ==
    (pc = "p_done" /\ fileExists /\ presult.kind = "raised"
        /\ presult.exc # "IOError") =>
        \/ lines = <<>>
        \/ records = <<>>
        \/ strict /\ AbsentColumns(records) # {}

(***************************** C6 *******************************************)
\* C6: every row of the output has the call's epoch as Time and the week
\* current when its record was opened as Week, and every row was opened by
\* an "ID:" line, whatever the order of the input lines.
C6_EveryRecordSeeded ==
    (pc = "p_done" /\ presult.kind = "returned") =>
        /\ Len(presult.df.rows) = Cardinality(Ids)
        /\ \A n \in 1..Len(presult.df.rows) :
              /\ presult.df.rows[n]["Time"] = to_datetime(almanac_date)
              /\ n <= Cardinality(Ids) =>
                    presult.df.rows[n]["Week"] = WeekBefore(NthId(n))

(***************************** C7 *******************************************)
\* no line of the input opens a record or sets a field
NoRecordLines == \A k \in 1..Len(lines) : ~IdAt(k) /\ ~FieldAt(k)

\* C7: an input that yields no record fails in both modes: with the
\* empty-input error when it has no lines, with the no-records error when
\* it holds only blank lines, week headers and unrecognised lines.
C7_NoRecordsIsFatal ==
    (pc = "p_done" /\ fileExists /\ NoRecordLines) =>
        /\ presult.kind = "raised"
        /\ presult.exc # "IOError" =>
              presult = IF lines = <<>>
                        THEN Raised("ValueError", "Input file is empty")
                        ELSE Raised("ValueError",
                                    "No valid records found in the YUMA file.")

C7_Witness ==
    /\ pc = "p_done"
    /\ ~strict
    /\ NoRecordLines
    /\ \E k \in 1..Len(lines) : HeaderAt(k) /\ week # None
    /\ \E k \in 1..Len(lines) : StrippedAt(k) = <<>>
    /\ \E k \in 1..Len(lines) : StrippedAt(k) # <<>> /\ ~HeaderAt(k)
    /\ presult = Raised("ValueError", "No valid records found in the YUMA file.")

(***************************** C8 *******************************************)
\* C8: yumaread ends in a table indexed by Time or in None, never in an
\* exception, and every failure of parse_yuma_almanac gives None.
C8_ReaderNeverRaises ==
    pc = "r_done" =>
        /\ rresult.kind \in {"table", "None"}
        /\ presult.kind = "raised" => rresult.kind = "None"
        /\ ~fileExists => rresult.kind = "None"
        /\ rresult.kind = "table" =>
              /\ presult.kind = "returned"
              /\ "Time" \notin rresult.columns
              /\ Len(rresult.index) = Len(presult.df.rows)

C8_Witness ==
    /\ pc = "r_done"
    /\ ~strict
    /\ presult = Raised("KeyError", "Time")
    /\ rresult.kind = "None"

(***************************** C9 *******************************************)
\* v is the date y-mo-d at midnight, as a Timestamp or as formatted text
IsDate(v, dt) ==
    \/ v = to_datetime(dt)
    \/ v = strftime(to_datetime(dt))

\* C9: when the file name's date pattern is a valid date, that date at
\* midnight UTC is the epoch passed to the parser and the Time of every
\* record of the table; the modification time is the epoch only when the
\* name gives no valid date.
C9_FilenameDateIsEveryTime ==
    /\ (caller = "yumaread" /\ pc = "scan") =>
          almanac_date = IF FilenameDate(filename) = None THEN MTime
                         ELSE FilenameDate(filename)
    /\ (pc = "r_done" /\ rresult.kind = "table"
          /\ FilenameDate(filename) # None) =>
          \A k \in 1..Len(rresult.index) :
             IsDate(rresult.index[k], FilenameDate(filename))

(***************************** C10 ******************************************)
\* an "ID:" line whose text after "ID:" is no integer
BadIdAt(k) == IdAt(k) /\ ~int(SubSeq(StrippedAt(k), 4, Len(StrippedAt(k)))).ok
BadFieldAt(k) ==
    FieldAt(k) /\ FieldValue(StrippedAt(k), field_map[LabelAt(k)][3]) = None

\* C10: a conversion failure touches its own attribute only.  An "ID:" line
\* whose payload is no integer opens a record with PRN null and the field
\* lines after it are stored in that record; a field line whose value does
\* not convert nulls that attribute and leaves the other attributes, the
\* week and the appended records as they were; the scan goes on.
C10_FailureIsLocal ==
    [][ (pc = "scan" /\ i <= Len(lines)) =>
          /\ pc' = "scan" /\ i' = i + 1 /\ presult' = presult
          /\ BadIdAt(i) =>
                /\ record' = ExpectedRecord(i, i)
                /\ record'["PRN"] = None
                /\ week' = week
          /\ BadFieldAt(i) =>
                /\ DOMAIN record' = DOMAIN record \cup {FieldKeyAt(i)}
                /\ record'[FieldKeyAt(i)] = None
                /\ \A c \in DOMAIN record \ {FieldKeyAt(i)} : record'[c] = record[c]
                /\ week' = week
                /\ records' = records
          /\ (IdsBefore(i) # {} /\ FieldAt(i)) =>
                record' = ExpectedRecord(Max(IdsBefore(i)), i) ]_vars

C10_Witness ==
    /\ pc = "scan"
    /\ i = 4
    /\ BadIdAt(1)
    /\ BadFieldAt(2)
    /\ FieldAt(3) /\ ~BadFieldAt(3)
    /\ record["PRN"] = None
    /\ record["Health"] = None
    /\ NonNull(record, "Af0")

=============================================================================
